---- MODULE Spec2Model ----
(***************************************************************************)
(* The Glyph ML-suggestions service: a FastAPI application with three      *)
(* POST endpoints (ner, quality, active-learning) and two GET endpoints    *)
(* (health, root).  A request arrives on a connection, its JSON body is    *)
(* validated against the endpoint's pydantic model, the handler is called  *)
(* with the validated model and its return value is the response.          *)
(*                                                                         *)
(* Conventions                                                             *)
(*   - an optional JSON field is None (<<>>, absent) or Some(v) (<<v>>);   *)
(*   - a float is a fixed-point integer in hundredths: 0.5 is 50, 1.0 is   *)
(*     100, 0.85 is 85;                                                    *)
(*   - a number of a JSON body is finite, Fin(n), or one of the values     *)
(*     json.loads also produces: PosInf (1e309, Infinity), NegInf, NaN;    *)
(*   - task identifiers are the integers 1..MaxTasks;                      *)
(*   - a dict is a function; the empty dict is <<>>.                       *)
(***************************************************************************)
EXTENDS Integers, Sequences, FiniteSets

\* Number of connections the server handles at the same time.
MaxRequests == 2
\* Size of the universe of task identifiers a project's pool is drawn from.
MaxTasks == 3

VARIABLES conn, alone

vars == <<conn, alone>>

Slots == 1..MaxRequests
TaskIds == 1..MaxTasks

None == <<>>
Some(v) == <<v>>
IsSome(o) == Len(o) = 1
Get(o) == o[1]

\* The numbers json.loads reads from a request body.
Fin(n) == [num |-> "finite", v |-> n]
PosInf == [num |-> "inf"]
NegInf == [num |-> "-inf"]
NaN == [num |-> "nan"]
IsFinite(x) == x.num = "finite"

Range(s) == {s[k] : k \in DOMAIN s}
NoDuplicates(s) == \A a, b \in DOMAIN s : a # b => s[a] # s[b]

----------------------------------------------------------------------------
(* Field(ge=..., le=...): the declared constraints and defaults.           *)

MaxSuggestionsDefault == 10
MaxSuggestionsGe == 1
MaxSuggestionsLe == 100
MinConfidenceDefault == 50
MinConfidenceGe == 0
MinConfidenceLe == 100
CountDefault == 10
CountGe == 1
CountLe == 100
ConfidenceGe == 0
ConfidenceLe == 100

Strategies == {"uncertainty", "diversity", "hybrid"}
StrategyDefault == "uncertainty"

\* Field(ge=lo, le=hi) on a number: the value passes or validation fails.
Field(v, lo, hi) == lo <= v /\ v <= hi

\* A field with a default: the default when absent, the given value otherwise.
WithDefault(o, d) == IF IsSome(o) THEN Get(o) ELSE d

\* A numeric field of a body with Field(default=d, ge=lo, le=hi): absent, or
\* a finite number within the bounds; a non-finite number fails validation.
Accepts(o, lo, hi) ==
    IsSome(o) => (IsFinite(Get(o)) /\ Field(Get(o).v, lo, hi))

\* The value of an accepted numeric field.
NumberOr(o, d) == IF IsSome(o) THEN Get(o).v ELSE d

\* The outcome of constructing a pydantic model from a body.
Invalid == [valid |-> FALSE, value |-> [none |-> TRUE]]
Valid(m) == [valid |-> TRUE, value |-> m]

----------------------------------------------------------------------------
(* Responses.                                                              *)

Ok(b) == [status |-> 200, body |-> b]
\* FastAPI's RequestValidationError: the request is rejected, 422.
ValidationError == [status |-> 422, body |-> [detail |-> "validation_error"]]
\* An exception that reaches the server: 500 Internal Server Error.
InternalError == [status |-> 500, body |-> [detail |-> "internal_error"]]

----------------------------------------------------------------------------
(* A JSON value where the endpoint expects an object (annotation_data).    *)

\* {"entities": [...]}: the members are JSON values, strings or numbers.
JsonObject(entities) == [json |-> "object", entities |-> entities]
JsonString == [json |-> "string"]
IsObject(x) == "json" \in DOMAIN x /\ x.json = "object"

----------------------------------------------------------------------------
(* POST /api/v1/suggestions/ner                                            *)

\* class NERSuggestionRequest: text and entity_types are required, the other
\* fields have defaults; max_suggestions and min_confidence are range-bounded.
NERSuggestionRequest(body) ==
    IF /\ IsSome(body.text)
       /\ IsSome(body.entity_types)
       /\ Accepts(body.max_suggestions, MaxSuggestionsGe, MaxSuggestionsLe)
       /\ Accepts(body.min_confidence, MinConfidenceGe, MinConfidenceLe)
    THEN Valid([text |-> Get(body.text),
                entity_types |-> Get(body.entity_types),
                model |-> WithDefault(body.model, "default"),
                max_suggestions |->
                    NumberOr(body.max_suggestions, MaxSuggestionsDefault),
                min_confidence |->
                    NumberOr(body.min_confidence, MinConfidenceDefault)])
    ELSE Invalid

\* class Entity: construction fails when confidence is outside [0,1].  id is
\* the caller's, or the one default_factory draws (uuid4) when none is given.
Entity(id, type, start, end, text, confidence) ==
    IF Field(confidence, ConfidenceGe, ConfidenceLe)
    THEN Valid([id |-> id, type |-> type, start |-> start, end |-> end,
                text |-> text, confidence |-> confidence])
    ELSE Invalid

\* class NERSuggestionResponse; every suggestion is an Entity, whose
\* confidence must lie in [0,1].
NERSuggestionResponse(suggestions, model, processing_time_ms) ==
    IF \A k \in DOMAIN suggestions :
           Field(suggestions[k].confidence, ConfidenceGe, ConfidenceLe)
    THEN Ok([suggestions |-> suggestions, model |-> model,
             processing_time_ms |-> processing_time_ms])
    ELSE InternalError

\* A handler that returns a candidate without filtering it by the request's
\* entity types and confidence threshold.
get_ner_suggestions_unfiltered(request) ==
    LET e == Entity("suggestion-00000000", "condition", 0, 1, "P", 40)
    IN  IF request.text = "" \/ ~e.valid
        THEN NERSuggestionResponse(<<>>, request.model, 0)
        ELSE NERSuggestionResponse(<<e.value>>, request.model, 0)

\* A handler that reports a processing time that grows with the number of
\* responses the server has not sent yet.
get_ner_suggestions_timed(request) ==
    NERSuggestionResponse(<<>>, request.model,
        Cardinality({j \in Slots : conn[j].stage = "responded"}))

\* async def get_ner_suggestions: no suggestion, the request's model name,
\* processing time 0.0.
get_ner_suggestions(request) ==
    NERSuggestionResponse(<<>>, request.model, 0)

----------------------------------------------------------------------------
(* POST /api/v1/suggestions/quality                                        *)

\* class QualityPredictionRequest: three required fields, annotation_data a
\* JSON object.
QualityPredictionRequest(body) ==
    IF /\ IsSome(body.annotation_data)
       /\ IsObject(Get(body.annotation_data))
       /\ IsSome(body.user_id)
       /\ IsSome(body.task_type)
    THEN Valid([annotation_data |-> Get(body.annotation_data),
                user_id |-> Get(body.user_id),
                task_type |-> Get(body.task_type)])
    ELSE Invalid

\* class QualityPredictionResponse: both numbers are range-bounded.
QualityPredictionResponse(predicted_quality, confidence, risk_factors) ==
    IF /\ Field(predicted_quality, ConfidenceGe, ConfidenceLe)
       /\ Field(confidence, ConfidenceGe, ConfidenceLe)
    THEN Ok([predicted_quality |-> predicted_quality,
             confidence |-> confidence,
             risk_factors |-> risk_factors])
    ELSE InternalError

\* A handler that flags one risk factor per entity of the annotation.
predict_quality_flag_per_entity(request) ==
    QualityPredictionResponse(85, 70,
        [k \in 1..(Len(request.annotation_data.entities) + 2) |->
            "low_agreement"])

\* A handler whose confidence grows with the quality predictions already
\* made (a per-process memory of earlier requests).
predict_quality_with_memory(request) ==
    QualityPredictionResponse(85,
        70 + Cardinality({j \in Slots : /\ conn[j].kind = "quality"
                                        /\ conn[j].stage = "responded"}),
        <<>>)

\* async def predict_quality: fixed 0.85, 0.7 and no risk factor.
predict_quality(request) ==
    QualityPredictionResponse(85, 70, <<>>)

----------------------------------------------------------------------------
(* POST /api/v1/suggestions/active-learning                                *)

\* class ActiveLearningRequest: project_id and user_id are required, strategy
\* is one of three literals, count is range-bounded.
ActiveLearningRequest(body) ==
    IF /\ IsSome(body.project_id)
       /\ IsSome(body.user_id)
       /\ WithDefault(body.strategy, StrategyDefault) \in Strategies
       /\ Accepts(body.count, CountGe, CountLe)
    THEN Valid([project_id |-> Get(body.project_id),
                user_id |-> Get(body.user_id),
                strategy |-> WithDefault(body.strategy, StrategyDefault),
                count |-> NumberOr(body.count, CountDefault)])
    ELSE Invalid

\* class ActiveLearningResponse: no constraint beyond the field types.
ActiveLearningResponse(task_ids, strategy_used, selection_scores) ==
    Ok([task_ids |-> task_ids, strategy_used |-> strategy_used,
        selection_scores |-> selection_scores])

\* A handler that pads its selection up to count by repeating a task, and
\* scores a task it does not return.
select_tasks_for_annotation_padded(request) ==
    ActiveLearningResponse([k \in 1..request.count |-> 1],
                           request.strategy,
                           [t \in {1, 2} |-> 50])

\* A handler that always reports the default strategy.
select_tasks_for_annotation_default(request) ==
    ActiveLearningResponse(<<>>, StrategyDefault, <<>>)

\* async def select_tasks_for_annotation: no task, the request's strategy,
\* no score.
select_tasks_for_annotation(request) ==
    ActiveLearningResponse(<<>>, request.strategy, <<>>)

----------------------------------------------------------------------------
(* GET /health and GET /                                                   *)

health_check ==
    Ok([status |-> "healthy", service |-> "ml-suggestions",
        version |-> "0.1.0"])

root ==
    Ok([service |-> "Glyph ML Suggestions", version |-> "0.1.0",
        docs |-> "/docs"])

----------------------------------------------------------------------------
(* Routing: the path selects the request model and the handler.            *)

Nothing == [none |-> TRUE]

\* FastAPI validates the body against the handler's parameter type; the GET
\* endpoints take no body.
Parse(kind, body) ==
    CASE kind = "ner" -> NERSuggestionRequest(body)
      [] kind = "quality" -> QualityPredictionRequest(body)
      [] kind = "active-learning" -> ActiveLearningRequest(body)
      [] OTHER -> Valid(Nothing)

Call(kind, request) ==
    CASE kind = "ner" -> get_ner_suggestions(request)
      [] kind = "quality" -> predict_quality(request)
      [] kind = "active-learning" -> select_tasks_for_annotation(request)
      [] kind = "health" -> health_check
      [] OTHER -> root

\* Whether a JSON value is, or holds, a non-finite number.
ContainsNonFinite(x) ==
    \/ "num" \in DOMAIN x /\ ~IsFinite(x)
    \/ /\ "entities" \in DOMAIN x
       /\ \E k \in DOMAIN x.entities : /\ "num" \in DOMAIN x.entities[k]
                                       /\ ~IsFinite(x.entities[k])

\* Whether a numeric or JSON-valued field of a body holds a non-finite number.
NonFinite(o) == IsSome(o) /\ ContainsNonFinite(Get(o))

\* Whether the inputs that the validation errors of a rejected body repeat
\* hold a non-finite number: the error of a missing field repeats the whole
\* body, the error of a bad value repeats that value.
EchoesNonFinite(kind, body) ==
    CASE kind = "ner" ->
             \/ /\ ~IsSome(body.text) \/ ~IsSome(body.entity_types)
                /\ NonFinite(body.max_suggestions) \/ NonFinite(body.min_confidence)
             \/ /\ ~Accepts(body.max_suggestions, MaxSuggestionsGe,
                             MaxSuggestionsLe)
                /\ NonFinite(body.max_suggestions)
             \/ /\ ~Accepts(body.min_confidence, MinConfidenceGe,
                             MinConfidenceLe)
                /\ NonFinite(body.min_confidence)
      [] kind = "quality" ->
             \/ /\ \/ ~IsSome(body.annotation_data)
                   \/ ~IsSome(body.user_id)
                   \/ ~IsSome(body.task_type)
                /\ NonFinite(body.annotation_data)
             \/ /\ IsSome(body.annotation_data)
                /\ ~IsObject(Get(body.annotation_data))
                /\ NonFinite(body.annotation_data)
      [] kind = "active-learning" ->
             \/ /\ ~IsSome(body.project_id) \/ ~IsSome(body.user_id)
                /\ NonFinite(body.count)
             \/ /\ ~Accepts(body.count, CountGe, CountLe)
                /\ NonFinite(body.count)
      [] OTHER -> FALSE

\* The application's handler for a rejected body: the 422 response repeats
\* the inputs of the validation errors, and rendering it as JSON fails on a
\* non-finite number, which leaves the client with a 500.
request_validation_exception_handler(kind, body) ==
    IF EchoesNonFinite(kind, body) THEN InternalError ELSE ValidationError

\* The response to one request: rejected at validation, or the handler's.
Respond(r) ==
    LET v == Parse(r.kind, r.body)
    IN  IF v.valid THEN Call(r.kind, v.value)
        ELSE request_validation_exception_handler(r.kind, r.body)

----------------------------------------------------------------------------
(* Request bodies.                                                         *)

Opt(S) == {None} \cup {Some(v) : v \in S}

CountProbes ==
    {Fin(n) : n \in {CountGe - 1, CountGe, 5, CountLe, CountLe + 1}}
    \cup {PosInf, NegInf}
ConfidenceProbes ==
    {Fin(n) : n \in {MinConfidenceGe - 1, MinConfidenceGe, 50,
                     MinConfidenceLe, MinConfidenceLe + 1}}
    \cup {PosInf, NaN}

NerRequests(T, E, M, K, C) ==
    {[kind |-> "ner", body |-> b] :
        b \in [text : T, entity_types : E, model : M, max_suggestions : K,
               min_confidence : C]}

QualityRequests(A, U, T) ==
    {[kind |-> "quality", body |-> b] :
        b \in [annotation_data : A, user_id : U, task_type : T]}

ActiveLearningRequests(P, U, S, K) ==
    {[kind |-> "active-learning", body |-> b] :
        b \in [project_id : P, user_id : U, strategy : S, count : K]}

GetRequests ==
    {[kind |-> "health", body |-> Nothing], [kind |-> "root", body |-> Nothing]}

\* Every request body the single-request specification draws from.
AllRequests ==
    NerRequests(Opt({"", "Patient has diabetes and hypertension."}),
                Opt({<<>>, <<"condition">>, <<"condition", "medication">>}),
                Opt({"custom"}), Opt(CountProbes), Opt(ConfidenceProbes))
    \cup QualityRequests(Opt({JsonObject(<<>>), JsonObject(<<JsonString>>),
                              JsonObject(<<PosInf>>), JsonObject(<<NaN>>),
                              JsonString, NegInf}),
                         Opt({"user-123", "user-456"}),
                         Opt({"ner", "classification"}))
    \cup ActiveLearningRequests(Opt({"project-123"}), Opt({"user-123"}),
                                Opt(Strategies \cup {"bogus"}), Opt(CountProbes))
    \cup GetRequests

\* The requests the concurrent specification draws from.
ProbeRequests ==
    NerRequests({Some("Patient has diabetes and hypertension.")},
                {Some(<<>>), Some(<<"condition", "medication">>)},
                Opt({"custom"}), {None, Some(Fin(MaxSuggestionsLe + 1))},
                {None})
    \cup QualityRequests({Some(JsonObject(<<>>)), Some(JsonObject(<<PosInf>>)),
                          Some(JsonString)},
                         Opt({"user-123", "user-456"}), {Some("ner")})
    \cup ActiveLearningRequests({Some("project-123")}, {Some("user-123")},
                                {None, Some("diversity"), Some("bogus")},
                                {Some(Fin(5)), Some(Fin(CountGe - 1)), Some(PosInf)})
    \cup GetRequests

----------------------------------------------------------------------------
(* The server: each connection carries one request through validation and  *)
(* its handler.  alone[r] is the response r gets from a server that serves *)
(* nothing else.                                                           *)

Idle ==
    [stage |-> "idle", kind |-> "none", body |-> Nothing,
     request |-> Nothing, resp |-> Nothing]

Received(r) ==
    [stage |-> "received", kind |-> r.kind, body |-> r.body,
     request |-> Nothing, resp |-> Nothing]

\* A request arrives on an idle connection.
Receive(i, r) ==
    /\ conn[i].stage = "idle"
    /\ conn' = [conn EXCEPT ![i] = Received(r)]
    /\ UNCHANGED alone

\* The body is validated: the model is built, or the request is rejected,
\* the handler is never called and the rejection is the response.
Validate(i) ==
    /\ conn[i].stage = "received"
    /\ LET v == Parse(conn[i].kind, conn[i].body)
       IN  conn' = [conn EXCEPT ![i] =
                IF v.valid
                THEN [@ EXCEPT !.stage = "validated", !.request = v.value]
                ELSE [@ EXCEPT !.stage = "responded",
                               !.resp = request_validation_exception_handler(
                                            conn[i].kind, conn[i].body)]]
    /\ UNCHANGED alone

\* The handler runs on the validated model and its result is the response.
Handle(i) ==
    /\ conn[i].stage = "validated"
    /\ conn' = [conn EXCEPT ![i] =
            [@ EXCEPT !.stage = "responded",
                      !.resp = Call(conn[i].kind, conn[i].request)]]
    /\ UNCHANGED alone

\* The client has the response; the connection serves the next request.
Close(i) ==
    /\ conn[i].stage = "responded"
    /\ conn' = [conn EXCEPT ![i] = Idle]
    /\ UNCHANGED alone

Init ==
    /\ conn = [i \in Slots |-> Idle]
    /\ alone = [r \in ProbeRequests |-> Respond(r)]

Next ==
    \E i \in Slots :
        \/ \E r \in ProbeRequests : Receive(i, r)
        \/ Validate(i)
        \/ Handle(i)
        \/ Close(i)

Spec == Init /\ [][Next]_vars

\* One request, drawn from every body, served on its own.
InitOne ==
    /\ \E r \in AllRequests :
           conn = [i \in Slots |-> IF i = 1 THEN Received(r) ELSE Idle]
    /\ alone = [r \in AllRequests |-> Respond(r)]

NextOne ==
    \E i \in Slots :
        \/ Validate(i)
        \/ Handle(i)

SpecOne == InitOne /\ [][NextOne]_vars

----------------------------------------------------------------------------
(* Properties.                                                             *)

Served(i, kind) == conn[i].kind = kind /\ conn[i].stage = "responded"
Handled(i, kind) == Served(i, kind) /\ conn[i].request # Nothing
Min(a, b) == IF a <= b THEN a ELSE b
\* A number of a body below lo or above hi (1e309 is above every bound).
OutOfRange(o, lo, hi) ==
    /\ IsSome(o)
    /\ \/ Get(o).num \in {"inf", "-inf"}
       \/ Get(o).num = "finite" /\ (Get(o).v < lo \/ Get(o).v > hi)
\* A number of a body within lo..hi, or the field left to its default.
Within(o, lo, hi) ==
    IsSome(o) => (Get(o).num = "finite" /\ Get(o).v \in lo..hi)

\* A valid NER request in the terms of the contract.
ValidNerBody(b) ==
    /\ IsSome(b.text)
    /\ IsSome(b.entity_types)
    /\ Within(b.max_suggestions, 1, 100)
    /\ Within(b.min_confidence, 0, 100)

\* C1: the response to a valid NER request has at most max_suggestions
\* suggestions, each with confidence >= min_confidence and a type among the
\* request's entity_types.
C1_NerWithinRequest ==
    \A i \in Slots :
        (Served(i, "ner") /\ ValidNerBody(conn[i].body)) =>
            LET b == conn[i].body
                out == conn[i].resp
            IN  /\ out.status = 200
                /\ Len(out.body.suggestions) <= NumberOr(b.max_suggestions, 10)
                /\ \A k \in DOMAIN out.body.suggestions :
                       /\ out.body.suggestions[k].confidence
                              >= NumberOr(b.min_confidence, 50)
                       /\ out.body.suggestions[k].type \in Range(Get(b.entity_types))

C1_Witness ==
    \E i \in Slots :
        /\ Served(i, "ner")
        /\ ValidNerBody(conn[i].body)
        /\ conn[i].body.text = Some("Patient has diabetes and hypertension.")
        /\ conn[i].body.entity_types = Some(<<"condition", "medication">>)
        /\ conn[i].body.max_suggestions = Some(Fin(1))
        /\ conn[i].body.min_confidence = Some(Fin(100))
        /\ conn[i].resp.status = 200

\* C2: a NER request whose entity_types is empty gets no success response;
\* it is rejected as invalid input.
C2_EmptyTypesRejected ==
    \A i \in Slots :
        (Served(i, "ner") /\ conn[i].body.entity_types = Some(<<>>)) =>
            /\ conn[i].resp.status # 200
            /\ conn[i].request = Nothing

\* C3: an out-of-range max_suggestions, min_confidence or count is rejected
\* with a validation error and never reaches the handler, adjusted or not;
\* a value that reaches the handler is the value the request carried.
C3_RejectedNeverClamped ==
    \A i \in Slots :
        conn[i].stage \in {"validated", "responded"} =>
            LET b == conn[i].body
                req == conn[i].request
            IN  /\ conn[i].kind = "ner" =>
                    /\ (\/ OutOfRange(b.max_suggestions, 1, 100)
                        \/ OutOfRange(b.min_confidence, 0, 100)) =>
                           /\ req = Nothing
                           /\ conn[i].stage = "responded"
                           /\ conn[i].resp.status = 422
                    /\ req # Nothing =>
                           /\ IsSome(b.max_suggestions) =>
                                  Fin(req.max_suggestions) = Get(b.max_suggestions)
                           /\ IsSome(b.min_confidence) =>
                                  Fin(req.min_confidence) = Get(b.min_confidence)
                /\ conn[i].kind = "active-learning" =>
                    /\ OutOfRange(b.count, 1, 100) =>
                           /\ req = Nothing
                           /\ conn[i].stage = "responded"
                           /\ conn[i].resp.status = 422
                    /\ (req # Nothing /\ IsSome(b.count)) =>
                           Fin(req.count) = Get(b.count)

\* C4: an active-learning request with an unrecognised strategy fails as a
\* whole: a validation error, no handler call, no task_ids and no
\* selection_scores in the response.
C4_UnknownStrategyRejected ==
    \A i \in Slots :
        (/\ conn[i].kind = "active-learning"
         /\ conn[i].stage \in {"validated", "responded"}
         /\ IsSome(conn[i].body.strategy)
         /\ Get(conn[i].body.strategy) \notin {"uncertainty", "diversity", "hybrid"}) =>
            /\ conn[i].stage = "responded"
            /\ conn[i].request = Nothing
            /\ conn[i].resp.status = 422
            /\ DOMAIN conn[i].resp.body
                   \cap {"task_ids", "selection_scores", "strategy_used"} = {}

\* C5: for a valid active-learning request and whatever the task pool is,
\* the returned task_ids are distinct, all from the pool, at most
\* min(count, |pool|), and selection_scores has entries only for them.
C5_SelectionWithinPool ==
    \A i \in Slots :
        Handled(i, "active-learning") =>
            /\ conn[i].resp.status = 200
            /\ LET ids == conn[i].resp.body.task_ids
                   scores == conn[i].resp.body.selection_scores
               IN  /\ NoDuplicates(ids)
                   /\ DOMAIN scores \subseteq Range(ids)
                   /\ \A pool \in SUBSET TaskIds :
                          /\ Range(ids) \subseteq pool
                          /\ Len(ids) <= Min(conn[i].request.count,
                                             Cardinality(pool))

C5_Witness ==
    \E i \in Slots :
        /\ Handled(i, "active-learning")
        /\ conn[i].request.count = 5
        /\ conn[i].request.strategy = "diversity"
        /\ conn[i].resp.status = 200

\* C6: with strategy "uncertainty", count 5 and a pool of 3 tasks, the
\* response lists exactly the 3 tasks of the pool.
C6_SmallPoolReturnedWhole ==
    \A i \in Slots :
        (/\ Handled(i, "active-learning")
         /\ conn[i].request.strategy = "uncertainty"
         /\ conn[i].request.count = 5) =>
            \E pool \in SUBSET TaskIds :
                /\ Cardinality(pool) = 3
                /\ conn[i].resp.status = 200
                /\ Len(conn[i].resp.body.task_ids) = 3
                /\ Range(conn[i].resp.body.task_ids) = pool

\* A well-formed quality request in the terms of the contract.
WellFormedQualityBody(b) ==
    /\ IsSome(b.annotation_data)
    /\ IsObject(Get(b.annotation_data))
    /\ IsSome(b.user_id)
    /\ IsSome(b.task_type)

\* C7: for a well-formed quality request, predicted_quality and confidence
\* lie in [0,1] and risk_factors has no duplicate.
C7_QualityInUnitInterval ==
    \A i \in Slots :
        (Served(i, "quality") /\ WellFormedQualityBody(conn[i].body)) =>
            /\ conn[i].resp.status = 200
            /\ conn[i].resp.body.predicted_quality \in 0..100
            /\ conn[i].resp.body.confidence \in 0..100
            /\ NoDuplicates(conn[i].resp.body.risk_factors)

C7_Witness ==
    \E i \in Slots :
        /\ Served(i, "quality")
        /\ conn[i].body.annotation_data = Some(JsonObject(<<>>))
        /\ conn[i].body.user_id = Some("user-123")
        /\ conn[i].body.task_type = Some("ner")
        /\ conn[i].resp.status = 200

\* C8: two quality requests with identical annotation_data, user_id and
\* task_type get identical responses, whatever was served before or between.
C8_QualityDeterministic ==
    \A i, j \in Slots :
        (/\ Served(i, "quality")
         /\ Served(j, "quality")
         /\ conn[i].body = conn[j].body) =>
            conn[i].resp = conn[j].resp

C8_Witness ==
    \E i, j \in Slots :
        /\ i # j
        /\ Served(i, "quality")
        /\ Served(j, "quality")
        /\ conn[i].body = conn[j].body
        /\ conn[i].resp.status = 200
        /\ conn[j].resp.status = 200

\* C9: for a valid active-learning request, strategy_used is the request's
\* strategy, and "uncertainty" when the request gives none.
C9_StrategyEchoed ==
    \A i \in Slots :
        Handled(i, "active-learning") =>
            /\ conn[i].resp.status = 200
            /\ conn[i].resp.body.strategy_used =
                   WithDefault(conn[i].body.strategy, "uncertainty")

C9_Witness ==
    \E i \in Slots :
        /\ Handled(i, "active-learning")
        /\ conn[i].body.strategy = Some("hybrid")
        /\ conn[i].resp.status = 200
        /\ conn[i].resp.body.strategy_used = "hybrid"

\* C10: whatever else the server is doing or has done, the response to a
\* request is the one the same request gets when it is the only request
\* ever served.
C10_ResponseAsIfAlone ==
    \A i \in Slots :
        conn[i].stage = "responded" =>
            conn[i].resp = alone[[kind |-> conn[i].kind, body |-> conn[i].body]]

C10_Witness ==
    \E i, j \in Slots :
        /\ Served(i, "ner")
        /\ conn[i].resp.status = 200
        /\ Served(j, "quality")
        /\ conn[j].resp.status = 200

====
